---- MODULE Spec2Model ----
(***************************************************************************)
(* The `logs` subcommand of the cloud plugin (src/commands/logs.rs): the  *)
(* command line parsers parse_duration and parse_interval, the entry      *)
(* point LogsCommand::run / LogsCommand::logs, and the polling loop       *)
(* fetch_logs_and_print_loop with its cursor.                             *)
(*                                                                         *)
(* Strings are sequences of one-character strings; u64 values are four    *)
(* 16-bit limbs, least significant first, so that the 64-bit width of the *)
(* source's arithmetic is kept.                                            *)
(***************************************************************************)
EXTENDS Integers, Sequences, FiniteSets, TLC

\* ------------------------------------------------------------------------
\* Bounds of the model
\* ------------------------------------------------------------------------

\* longest generated command-line argument (longer ones are listed one by one)
MaxArgLen == 3

\* ------------------------------------------------------------------------
\* u64 arithmetic
\* ------------------------------------------------------------------------

LimbBase == 2^16

U64Zero == <<0, 0, 0, 0>>

U64Max == <<LimbBase - 1, LimbBase - 1, LimbBase - 1, LimbBase - 1>>

\* x * k in 64 bits: the wrapped product and whether the true product overflows
U64Mul(x, k) ==
  LET p1 == x[1] * k
      p2 == x[2] * k + (p1 \div LimbBase)
      p3 == x[3] * k + (p2 \div LimbBase)
      p4 == x[4] * k + (p3 \div LimbBase)
  IN  [val |-> <<p1 % LimbBase, p2 % LimbBase, p3 % LimbBase, p4 % LimbBase>>,
       overflow |-> (p4 \div LimbBase) > 0]

\* x + d in 64 bits: the wrapped sum and whether the true sum overflows
U64Add(x, d) ==
  LET s1 == x[1] + d
      s2 == x[2] + (s1 \div LimbBase)
      s3 == x[3] + (s2 \div LimbBase)
      s4 == x[4] + (s3 \div LimbBase)
  IN  [val |-> <<s1 % LimbBase, s2 % LimbBase, s3 % LimbBase, s4 % LimbBase>>,
       overflow |-> (s4 \div LimbBase) > 0]

\* x < y on u64
U64Less(x, y) ==
  \E i \in 1..4 : x[i] < y[i] /\ \A j \in (i + 1)..4 : x[j] = y[j]

\* ------------------------------------------------------------------------
\* Results (an error is the sequence of the parts of its message)
\* ------------------------------------------------------------------------

NoValue == <<>>

Ok(v) == [tag |-> "Ok", val |-> v, err |-> <<>>]

Err(e) == [tag |-> "Err", val |-> NoValue, err |-> e]

\* a panic unwinds out of the function: there is no return value
Panic(e) == [tag |-> "Panic", val |-> NoValue, err |-> e]

\* ------------------------------------------------------------------------
\* str::parse::<u64>
\* ------------------------------------------------------------------------

DigitChars == <<"0", "1", "2", "3", "4", "5", "6", "7", "8", "9">>

IsDigit(c) == \E i \in 1..10 : DigitChars[i] = c

DigitVal(c) == (CHOOSE i \in 1..10 : DigitChars[i] = c) - 1

RECURSIVE ParseDigits(_, _)
\* the accumulation loop of the integer parser: checked_mul(10), checked_add(digit)
ParseDigits(ds, acc) ==
  IF ds = <<>> THEN Ok(acc)
  ELSE IF ~IsDigit(Head(ds)) THEN Err(<<"InvalidDigit">>)
  ELSE LET m == U64Mul(acc, 10)
       IN  IF m.overflow THEN Err(<<"PosOverflow">>)
           ELSE LET a == U64Add(m.val, DigitVal(Head(ds)))
                IN  IF a.overflow THEN Err(<<"PosOverflow">>)
                    ELSE ParseDigits(Tail(ds), a.val)

\* `parg.parse()` / `arg.parse()` with the target type u64
ParseU64(s) ==
  IF s = <<>> THEN Err(<<"Empty">>)
  ELSE LET ds == IF Head(s) = "+" THEN Tail(s) ELSE s
       IN  IF ds = <<>> THEN Err(<<"InvalidDigit">>) ELSE ParseDigits(ds, U64Zero)

\* ------------------------------------------------------------------------
\* parse_duration, parse_interval
\* ------------------------------------------------------------------------

\* arg.strip_suffix(c): the text before a trailing c, if there is one
HasSuffix(arg, c) == Len(arg) > 0 /\ arg[Len(arg)] = c

StripSuffix(arg) == SubSeq(arg, 1, Len(arg) - 1)

from_secs(v) == [secs |-> v, nanos |-> 0]

RECURSIVE MulChain(_, _, _)
\* value * k1 * k2 ...: left to right in u64.  An overflowing `*` panics in a
\* build with overflow checks and wraps in one without.
MulChain(value, ks, overflow_checks) ==
  IF ks = <<>> THEN Ok(value)
  ELSE LET m == U64Mul(value, Head(ks))
       IN  IF m.overflow /\ overflow_checks
           THEN Panic(<<"attempt to multiply with overflow">>)
           ELSE MulChain(m.val, Tail(ks), overflow_checks)

\* one branch of parse_duration: parse the prefix, scale it, wrap it in a Duration
DurationBranch(parg, ks, overflow_checks) ==
  LET value == ParseU64(parg)
  IN  IF value.tag # "Ok" THEN value
      ELSE LET secs == MulChain(value.val, ks, overflow_checks)
           IN  IF secs.tag # "Ok" THEN secs ELSE Ok(from_secs(secs.val))

\* parse_duration reading a string without a unit as seconds
parse_duration_DefaultSeconds(arg, overflow_checks) ==
  IF HasSuffix(arg, "s") THEN DurationBranch(StripSuffix(arg), <<>>, overflow_checks)
  ELSE IF HasSuffix(arg, "m") THEN DurationBranch(StripSuffix(arg), <<60>>, overflow_checks)
  ELSE IF HasSuffix(arg, "h") THEN DurationBranch(StripSuffix(arg), <<60, 60>>, overflow_checks)
  ELSE IF HasSuffix(arg, "d") THEN DurationBranch(StripSuffix(arg), <<24, 60, 60>>, overflow_checks)
  ELSE DurationBranch(arg, <<>>, overflow_checks)

parse_duration(arg, overflow_checks) ==
  IF HasSuffix(arg, "s") THEN DurationBranch(StripSuffix(arg), <<>>, overflow_checks)
  ELSE IF HasSuffix(arg, "m") THEN DurationBranch(StripSuffix(arg), <<60>>, overflow_checks)
  ELSE IF HasSuffix(arg, "h") THEN DurationBranch(StripSuffix(arg), <<60, 60>>, overflow_checks)
  ELSE IF HasSuffix(arg, "d") THEN DurationBranch(StripSuffix(arg), <<24, 60, 60>>, overflow_checks)
  ELSE Err(<<"supported formats are 300s, 5m, 4h or 1d">>)

\* the floor of the polling interval, in seconds
MinInterval == <<2, 0, 0, 0>>

\* parse_interval with the floor at 1
parse_interval_FloorOne(arg) ==
  LET interval == ParseU64(arg)
  IN  IF interval.tag # "Ok" THEN interval
      ELSE IF U64Less(interval.val, <<1, 0, 0, 0>>)
           THEN Err(<<"interval cannot be less than 2 seconds">>)
           ELSE Ok(interval.val)

parse_interval(arg) ==
  LET interval == ParseU64(arg)
  IN  IF interval.tag # "Ok" THEN interval
      ELSE IF U64Less(interval.val, MinInterval)
           THEN Err(<<"interval cannot be less than 2 seconds">>)
           ELSE Ok(interval.val)

\* ------------------------------------------------------------------------
\* Command-line arguments the parsers are applied to
\* ------------------------------------------------------------------------

ArgChars == {"0", "1", "9", "s", "m", "h", "d", "+", "x"}

RECURSIVE StringsUpTo(_, _)
\* every string over `chars` of length at most n
StringsUpTo(chars, n) ==
  IF n = 0 THEN {<<>>}
  ELSE LET shorter == StringsUpTo(chars, n - 1)
       IN  shorter \cup {Append(str, c) : str \in shorter, c \in chars}

LongDurationArgs ==
  {
      <<"1", "8", "4", "4", "6", "7", "4", "4", "0", "7", "3", "7", "0", "9", "5", "5", "1", "6", "1", "5", "s">>,
      <<"1", "8", "4", "4", "6", "7", "4", "4", "0", "7", "3", "7", "0", "9", "5", "5", "1", "6", "1", "6", "s">>,
      <<"3", "0", "7", "4", "4", "5", "7", "3", "4", "5", "6", "1", "8", "2", "5", "8", "6", "0", "m">>,
      <<"3", "0", "7", "4", "4", "5", "7", "3", "4", "5", "6", "1", "8", "2", "5", "8", "6", "1", "m">>,
      <<"5", "1", "2", "4", "0", "9", "5", "5", "7", "6", "0", "3", "0", "4", "3", "1", "h">>,
      <<"5", "1", "2", "4", "0", "9", "5", "5", "7", "6", "0", "3", "0", "4", "3", "2", "h">>,
      <<"2", "1", "3", "5", "0", "3", "9", "8", "2", "3", "3", "4", "6", "0", "1", "d">>,
      <<"2", "1", "3", "5", "0", "3", "9", "8", "2", "3", "3", "4", "6", "0", "2", "d">>,
      <<"7", "6", "8", "6", "1", "4", "3", "3", "6", "4", "0", "4", "5", "6", "4", "6", "5", "1", "d">>,
      <<"9", "9", "9", "9", "9", "9", "9", "9", "9", "9", "9", "9", "9", "9", "9", "9", "9", "9", "9", "9", "s">>,
      <<"1", "h", "3", "0", "m">>,
      <<"3", "0", "m", "i", "n">>,
      <<"3", "0", "0", "s">>,
      <<"+", "1", "5", "m">>,
      <<"0", "0", "7", "d">>,
      <<"a", "b", "c">>,
      <<"1", "0">>,
      <<"1", ".", "5", "h">>,
      <<"-", "3", "s">>,
      <<"1", "2", " ", "h">>
  }

DurationArgs == StringsUpTo(ArgChars, MaxArgLen) \cup LongDurationArgs

\* ------------------------------------------------------------------------
\* Timestamps, log entries and the remote service
\* ------------------------------------------------------------------------

\* entries per response, lines per response
MaxEntries == 2

MaxLines == 2

\* Utc::now() when the loop starts, in seconds
StartTime == 1000000

\* a timestamp formatted as an RFC 3339 string
to_rfc3339(t) == <<"rfc3339", t>>

EmptyString == <<>>

Some(x) == [some |-> TRUE, val |-> x]

None == [some |-> FALSE, val |-> <<>>]

\* Option<i32>
SomeInt(n) == [some |-> TRUE, val |-> n]

NoneInt == [some |-> FALSE, val |-> 0]

LineTime(i) == StartTime + i

LineText(i) == <<"text", i>>

\* the i-th line of the service's log; the generated type has both fields optional
LogLine(i) == [time |-> Some(to_rfc3339(LineTime(i))), line |-> Some(LineText(i))]

LineWithoutTime == [time |-> None, line |-> Some(LineText(1))]

LineWithoutText == [time |-> Some(to_rfc3339(LineTime(1))), line |-> None]

\* the lines of the service's log, by the second after StartTime they were written
LineIds == {1, 2}

LogLines == {LogLine(i) : i \in LineIds} \cup {LineWithoutTime, LineWithoutText}

RECURSIVE SeqsUpTo(_, _)
\* every sequence over S of length at most n
SeqsUpTo(S, n) ==
  IF n = 0 THEN {<<>>}
  ELSE LET shorter == SeqsUpTo(S, n - 1)
       IN  shorter \cup {Append(q, x) : q \in shorter, x \in S}

\* entries holding at most n lines; log_lines is optional in the generated type
EntriesWithin(n) ==
  {[log_lines |-> None]} \cup {[log_lines |-> Some(ls)] : ls \in SeqsUpTo(LogLines, n)}

LineCount(e) == IF e.log_lines.some THEN Len(e.log_lines.val) ELSE 0

RECURSIVE EntrySeqs(_, _)
\* every list of at most n entries holding at most `budget` lines together
EntrySeqs(n, budget) ==
  IF n = 0 THEN {<<>>}
  ELSE {<<>>} \cup
       UNION {{<<e>> \o rest : rest \in EntrySeqs(n - 1, budget - LineCount(e))} :
                e \in EntriesWithin(budget)}

TransportError == <<"transport error">>

\* what channel_logs_raw can answer
FetchResults == {Err(TransportError)} \cup {Ok(es) : es \in EntrySeqs(MaxEntries, MaxLines)}

AppName == "myapp"

AppIds == {<<"app-1">>, <<"app-2">>}

SPIN_DEPLOY_CHANNEL_NAME == "spin-deploy"

\* the service's channel of an app
ChannelOf(app, channel_name) == <<"channel of">> \o app \o <<channel_name>>

NoId == <<"none">>

\* what create_cloud_client, get_app_id and get_channel_id can answer
ClientResults == {Ok(<<"client">>), Err(<<"cannot create cloud client">>)}

GetAppIdResults(name) ==
  {Ok(Some(a)) : a \in AppIds} \cup {Ok(None), Err(<<"app lookup failed">>)}

GetChannelIdResults(app, channel_name) ==
  {Ok(ChannelOf(app, channel_name)), Err(<<"channel lookup failed">>)}

\* ------------------------------------------------------------------------
\* print_lastn_logs, fetch_logs_and_print_once
\* ------------------------------------------------------------------------

RECURSIVE PrintLines_Skip(_, _)
\* the inner loop passing over a line without text or time
PrintLines_Skip(lines, st) ==
  IF lines = <<>> THEN st
  ELSE LET line == Head(lines)
       IN  IF ~line.line.some \/ ~line.time.some THEN PrintLines_Skip(Tail(lines), st)
           ELSE PrintLines_Skip(Tail(lines),
                                [st EXCEPT !.printed = Append(@, line.line.val),
                                           !.new_since = line.time.val])

RECURSIVE PrintLines(_, _)
\* the inner loop over one entry's lines; st = [printed, new_since, panicked].
\* The text is unwrapped and printed before the time is unwrapped.
PrintLines(lines, st) ==
  IF lines = <<>> \/ st.panicked THEN st
  ELSE LET line == Head(lines)
       IN  IF ~line.line.some THEN [st EXCEPT !.panicked = TRUE]
           ELSE LET shown == [st EXCEPT !.printed = Append(@, line.line.val)]
                IN  IF ~line.time.some THEN [shown EXCEPT !.panicked = TRUE]
                    ELSE PrintLines(Tail(lines),
                                    [shown EXCEPT !.new_since = line.time.val])

RECURSIVE PrintEntries(_, _, _)
\* entries.iter().rev(): entries[i], entries[i - 1], ..., entries[1]
PrintEntries(entries, i, st) ==
  IF i = 0 \/ st.panicked THEN st
  ELSE IF ~entries[i].log_lines.some THEN [st EXCEPT !.panicked = TRUE]
  ELSE PrintEntries(entries, i - 1, PrintLines(entries[i].log_lines.val, st))

RECURSIVE PrintEntriesForward(_, _, _)
PrintEntriesForward(entries, i, st) ==
  IF i > Len(entries) \/ st.panicked THEN st
  ELSE IF ~entries[i].log_lines.some THEN [st EXCEPT !.panicked = TRUE]
  ELSE PrintEntriesForward(entries, i + 1, PrintLines(entries[i].log_lines.val, st))

\* print_lastn_logs without the .rev()
print_lastn_logs_Forward(entries) ==
  PrintEntriesForward(entries, 1,
                      [printed |-> <<>>, new_since |-> EmptyString, panicked |-> FALSE])

print_lastn_logs(entries) ==
  PrintEntries(entries, Len(entries),
               [printed |-> <<>>, new_since |-> EmptyString, panicked |-> FALSE])

\* fetch_logs_and_print_once without the is_empty check
fetch_logs_and_print_once_NoEmptyCheck(res, since) ==
  IF res.tag = "Err" THEN [ret |-> Err(res.err), printed |-> <<>>]
  ELSE LET p == print_lastn_logs(res.val)
       IN  IF p.panicked
           THEN [ret |-> Panic(<<"called Option::unwrap() on a None value">>),
                 printed |-> p.printed]
           ELSE [ret |-> Ok(p.new_since), printed |-> p.printed]

\* the part of fetch_logs_and_print_once after channel_logs_raw has answered:
\* [ret, printed], ret the returned cursor, the error, or a panic
fetch_logs_and_print_once(res, since) ==
  IF res.tag = "Err" THEN [ret |-> Err(res.err), printed |-> <<>>]
  ELSE IF res.val = <<>> THEN [ret |-> Ok(since), printed |-> <<>>]
  ELSE LET p == print_lastn_logs(res.val)
       IN  IF p.panicked
           THEN [ret |-> Panic(<<"called Option::unwrap() on a None value">>),
                 printed |-> p.printed]
           ELSE [ret |-> Ok(p.new_since), printed |-> p.printed]

\* ------------------------------------------------------------------------
\* LogsCommand::run, LogsCommand::logs
\* ------------------------------------------------------------------------

DEVELOPER_CLOUD_FAQ == "DEVELOPER_CLOUD_FAQ"

\* run's map_err: the error, then the pointer to the documentation
Annotate(e) == e \o <<"Learn more at", DEVELOPER_CLOUD_FAQ>>

\* what run returns for what logs returned
RunReturn(logs_ret) ==
  IF logs_ret.tag = "Err" THEN Err(Annotate(logs_ret.err)) ELSE logs_ret

\* logs falling back to the first app when the name resolves to none
AppIdStep_Fallback(res) ==
  IF res.tag = "Err" THEN Err(<<"app with name not found">> \o res.err)
  ELSE IF ~res.val.some THEN Ok(<<"app-1">>)
  ELSE Ok(res.val.val)

\* logs, on the answer of get_app_id: the app id, or the error logs returns
AppIdStep(res) ==
  IF res.tag = "Err" THEN Err(<<"app with name not found">> \o res.err)
  ELSE IF ~res.val.some THEN Err(<<"app with name not found">>)
  ELSE Ok(res.val.val)

\* logs, on the answer of get_channel_id
ChannelIdStep(res) ==
  IF res.tag = "Err"
  THEN Err(<<"logs channel for app with name not found">> \o res.err)
  ELSE Ok(res.val)

\* the seconds of a Duration as an integer (durations below 2^31 seconds)
DurationSecs(d) == d.secs[1] + d.secs[2] * LimbBase

\* Utc::now().sub(since).to_rfc3339()
InitialCursor(now, since) == to_rfc3339(now - DurationSecs(since))

\* the loop without the check of follow
ReturnsAfterFirstFetch_Never(follow) == FALSE

\* `if !follow { return Ok(()) }` after the first fetch
ReturnsAfterFirstFetch(follow) == ~follow

\* ------------------------------------------------------------------------
\* Command lines
\* ------------------------------------------------------------------------

CmdIntervalArgs ==
  {<<"0">>, <<"1">>, <<"2">>, <<"0", "2">>, <<"+", "2">>, <<"-", "2">>,
   <<"1", "0", "0">>, <<"2", "s">>, <<"a", "b", "c">>, <<>>, <<" ", "2">>,
   <<"1", "8", "4", "4", "6", "7", "4", "4", "0", "7", "3", "7", "0", "9", "5",
     "5", "1", "6", "1", "5">>,
   <<"1", "8", "4", "4", "6", "7", "4", "4", "0", "7", "3", "7", "0", "9", "5",
     "5", "1", "6", "1", "6">>}

CmdSinceArgs == {<<"7", "d">>, <<"0", "s">>, <<"1", "h", "3", "0", "m">>}

CmdTailArgs == {1, 10}

\* ------------------------------------------------------------------------
\* State
\* ------------------------------------------------------------------------

VARIABLES
  test_arg,     \* the string parse_duration is applied to
  test_result,  \* [fn, out, overflow_checks]: what it gave, in which build
  pc,           \* where the command is
  argv,         \* <<follow, interval, since, tail>> as given; <<>> once consumed
  cmd,          \* the LogsCommand the argument parser built
  outcome,      \* how the process ended: Ok, Err, Panic, ArgumentParseError
  calls,        \* the calls to the client so far, up to the channel lookup
  app_id,
  channel_id,
  new_since,    \* the cursor of fetch_logs_and_print_loop
  request,      \* the last channel_logs_raw request
  in_flight,    \* requests issued and not yet answered
  response,     \* the answer of channel_logs_raw the last step worked on
  printed,      \* the lines the last step printed
  fetches,      \* requests issued: 0, 1, or 2 for more than one
  sleeps,       \* sleeps completed since the last fetch returned
  slept         \* the length of the last completed sleep

vars == <<test_arg, test_result, pc, argv, cmd, outcome, calls, app_id, channel_id,
          new_since, request, in_flight, response, printed, fetches, sleeps, slept>>

testVars == <<test_arg, test_result>>

cmdVars == <<pc, argv, cmd, outcome, calls, app_id, channel_id, new_since, request,
             in_flight, response, printed, fetches, sleeps, slept>>

loopVars == <<new_since, request, in_flight, response, printed, fetches, sleeps, slept>>

NotParsed == [fn |-> "none", out |-> Err(<<>>), overflow_checks |-> FALSE]

NoCommand ==
  [follow |-> FALSE, interval_secs |-> U64Zero, since |-> from_secs(U64Zero),
   max_lines |-> 0, app |-> ""]

Running == [tag |-> "Running", val |-> NoValue, err |-> <<>>]

NoRequest == [channel_id |-> NoId, max_lines |-> NoneInt, since |-> EmptyString]

NoResponse == [tag |-> "None", val |-> NoValue, err |-> <<>>]

\* the command before anything has run
CmdIdle ==
  /\ cmd = NoCommand
  /\ outcome = Running
  /\ calls = <<>>
  /\ app_id = NoId
  /\ channel_id = NoId
  /\ new_since = EmptyString
  /\ request = NoRequest
  /\ in_flight = 0
  /\ response = NoResponse
  /\ printed = <<>>
  /\ fetches = 0
  /\ sleeps = 0
  /\ slept = U64Zero

\* ------------------------------------------------------------------------
\* The command
\* ------------------------------------------------------------------------

Init ==
  /\ test_arg = <<>>
  /\ test_result = NotParsed
  /\ pc = "clap"
  /\ argv \in {<<f, i, s, t>> : f \in BOOLEAN, i \in CmdIntervalArgs,
                               s \in CmdSinceArgs, t \in CmdTailArgs}
  /\ CmdIdle

\* the process ends with outcome o
Exit(o) ==
  /\ pc' = "exited"
  /\ outcome' = o

\* the argument parser applies parse_interval and parse_duration to the values of
\* --interval and --since; a value that does not parse ends the process with a
\* usage error before run is called
ClapParse ==
  /\ pc = "clap"
  /\ \E oc \in BOOLEAN :
       LET i == parse_interval(argv[2])
           d == parse_duration(argv[3], oc)
       IN  IF i.tag = "Err"
           THEN /\ Exit([tag |-> "ArgumentParseError", val |-> NoValue,
                         err |-> <<"--interval">> \o i.err])
                /\ UNCHANGED cmd
           ELSE IF d.tag = "Err"
           THEN /\ Exit([tag |-> "ArgumentParseError", val |-> NoValue,
                         err |-> <<"--since">> \o d.err])
                /\ UNCHANGED cmd
           ELSE IF d.tag = "Panic"
           THEN /\ Exit(d)
                /\ UNCHANGED cmd
           ELSE /\ cmd' = [follow |-> argv[1], interval_secs |-> i.val,
                           since |-> d.val, max_lines |-> argv[4], app |-> AppName]
                /\ pc' = "run"
                /\ UNCHANGED outcome
  /\ UNCHANGED <<testVars, argv, calls, app_id, channel_id, loopVars>>

Call(fn, arg, res) == [fn |-> fn, arg |-> arg, tag |-> res.tag, val |-> res.val]

\* run: create_cloud_client(..).await?
Run ==
  /\ pc = "run"
  /\ \E res \in ClientResults :
       /\ calls' = Append(calls, Call("create_cloud_client", <<>>, res))
       /\ IF res.tag = "Err"
          THEN Exit(Err(res.err))
          ELSE pc' = "get_app_id" /\ UNCHANGED outcome
  /\ argv' = <<>>
  /\ UNCHANGED <<testVars, cmd, app_id, channel_id, loopVars>>

\* logs: client.get_app_id(&self.app)
GetAppId ==
  /\ pc = "get_app_id"
  /\ \E res \in GetAppIdResults(cmd.app) :
       LET step == AppIdStep(res)
       IN  /\ calls' = Append(calls, Call("get_app_id", <<cmd.app>>, res))
           /\ IF step.tag = "Err"
              THEN Exit(RunReturn(step)) /\ UNCHANGED app_id
              ELSE app_id' = step.val /\ pc' = "get_channel_id" /\ UNCHANGED outcome
  /\ UNCHANGED <<testVars, argv, cmd, channel_id, loopVars>>

\* logs: client.get_channel_id(app_id, SPIN_DEPLOY_CHANNEL_NAME)
GetChannelId ==
  /\ pc = "get_channel_id"
  /\ \E res \in GetChannelIdResults(app_id, SPIN_DEPLOY_CHANNEL_NAME) :
       LET step == ChannelIdStep(res)
       IN  /\ calls' = Append(calls, Call("get_channel_id",
                                          app_id \o <<SPIN_DEPLOY_CHANNEL_NAME>>, res))
           /\ IF step.tag = "Err"
              THEN Exit(RunReturn(step)) /\ UNCHANGED channel_id
              ELSE channel_id' = step.val /\ pc' = "first_fetch" /\ UNCHANGED outcome
  /\ UNCHANGED <<testVars, argv, cmd, app_id, loopVars>>

\* the max_lines and since of the first fetch_logs_and_print_once
FirstFetchArgs(c, cursor) == [max_lines |-> SomeInt(c.max_lines), since |-> cursor]

\* the loop passing the line limit on every turn
LoopFetchArgs_KeepLimit(c, cursor) ==
  [max_lines |-> SomeInt(c.max_lines), since |-> cursor]

\* the max_lines and since of the fetch_logs_and_print_once of one turn
LoopFetchArgs(c, cursor) == [max_lines |-> NoneInt, since |-> cursor]

\* the loop forgetting the cursor a fetch returned
NextCursor_Kept(ret, cursor) == cursor

\* `new_since = fetch_logs_and_print_once(..).await?`
NextCursor(ret, cursor) == IF ret.tag = "Ok" THEN ret.val ELSE cursor

\* channel_logs_raw(channel_id, max_lines, Some(since)) is called
IssueFetch(max_lines, since) ==
  /\ request' = [channel_id |-> channel_id, max_lines |-> max_lines, since |-> since]
  /\ in_flight' = in_flight + 1
  /\ fetches' = IF fetches < 2 THEN fetches + 1 ELSE fetches
  /\ pc' = "fetching"

\* fetch_logs_and_print_loop up to its first await: the initial cursor and the
\* first fetch
FirstFetch ==
  /\ pc = "first_fetch"
  /\ new_since' = InitialCursor(StartTime, cmd.since)
  /\ LET args == FirstFetchArgs(cmd, new_since')
     IN  IssueFetch(args.max_lines, args.since)
  /\ UNCHANGED <<testVars, argv, cmd, outcome, calls, app_id, channel_id,
                 response, printed, sleeps, slept>>

\* the loop without its sleep
AfterFetch_NoSleep(ret, first) ==
  IF ret.tag # "Ok" THEN "exited"
  ELSE IF first /\ ReturnsAfterFirstFetch(cmd.follow) THEN "exited"
  ELSE "loop_fetch"

\* the loop trying again after a failed fetch
AfterFetch_Retry(ret, first) ==
  IF ret.tag = "Panic" THEN "exited"
  ELSE IF first /\ ReturnsAfterFirstFetch(cmd.follow) THEN "exited"
  ELSE "sleeping"

\* where the loop goes once a fetch_logs_and_print_once has returned `ret`
AfterFetch(ret, first) ==
  IF ret.tag # "Ok" THEN "exited"
  ELSE IF first /\ ReturnsAfterFirstFetch(cmd.follow) THEN "exited"
  ELSE "sleeping"

\* channel_logs_raw answers and fetch_logs_and_print_once runs to its end; the
\* loop assigns the cursor and returns, or goes to sleep
FetchReturns ==
  /\ pc = "fetching"
  /\ \E res \in FetchResults :
       LET once == fetch_logs_and_print_once(res, request.since)
           next == AfterFetch(once.ret, fetches = 1)
       IN  /\ response' = res
           /\ printed' = once.printed
           /\ new_since' = NextCursor(once.ret, new_since)
           /\ pc' = next
           /\ outcome' = IF next = "exited"
                         THEN RunReturn(IF once.ret.tag = "Ok" THEN Ok(NoValue)
                                        ELSE once.ret)
                         ELSE outcome
  /\ in_flight' = in_flight - 1
  /\ sleeps' = 0
  /\ UNCHANGED <<testVars, argv, cmd, calls, app_id, channel_id, request, fetches,
                 slept>>

\* tokio::time::sleep(Duration::from_secs(interval)).await completes
Sleep ==
  /\ pc = "sleeping"
  /\ slept' = cmd.interval_secs
  /\ sleeps' = sleeps + 1
  /\ pc' = "loop_fetch"
  /\ response' = NoResponse
  /\ printed' = <<>>
  /\ UNCHANGED <<testVars, argv, cmd, outcome, calls, app_id, channel_id,
                 new_since, request, in_flight, fetches>>

\* the fetch of one turn of the loop
LoopFetch ==
  /\ pc = "loop_fetch"
  /\ LET args == LoopFetchArgs(cmd, new_since)
     IN  IssueFetch(args.max_lines, args.since)
  /\ UNCHANGED <<testVars, argv, cmd, outcome, calls, app_id, channel_id,
                 new_since, response, printed, sleeps, slept>>

Next ==
  \/ ClapParse
  \/ Run
  \/ GetAppId
  \/ GetChannelId
  \/ FirstFetch
  \/ FetchReturns
  \/ Sleep
  \/ LoopFetch

Spec == Init /\ [][Next]_vars

\* the timer fires, the service answers, and the loop goes on
FairSpec ==
  Spec /\ WF_vars(FetchReturns) /\ WF_vars(Sleep) /\ WF_vars(LoopFetch)

\* ------------------------------------------------------------------------
\* parse_duration applied to one argument
\* ------------------------------------------------------------------------

ParseInit ==
  /\ test_arg \in DurationArgs
  /\ test_result = NotParsed
  /\ pc = "idle"
  /\ argv = <<>>
  /\ CmdIdle

ApplyParseDuration ==
  /\ test_result.fn = "none"
  /\ test_arg \in DurationArgs
  /\ \E oc \in BOOLEAN :
       test_result' = [fn |-> "parse_duration",
                       out |-> parse_duration(test_arg, oc),
                       overflow_checks |-> oc]
  /\ UNCHANGED <<test_arg, cmdVars>>

ParseNext == ApplyParseDuration

SpecParse == ParseInit /\ [][ParseNext]_vars

\* ------------------------------------------------------------------------
\* Decimal arithmetic on unbounded naturals (digit values, most significant
\* first), used to state what the parsers are expected to return
\* ------------------------------------------------------------------------

RECURSIVE DecStrip(_)
\* without leading zeros (zero is <<0>>)
DecStrip(ds) == IF Len(ds) > 1 /\ Head(ds) = 0 THEN DecStrip(Tail(ds)) ELSE ds

\* the number a string of digit characters denotes
DecOfChars(cs) == DecStrip([i \in 1..Len(cs) |-> DigitVal(cs[i])])

RECURSIVE DecMulCarry(_, _, _)
\* ds * k + carry, ds taken from its least significant end
DecMulCarry(ds, k, carry) ==
  IF ds = <<>>
  THEN IF carry = 0 THEN <<>>
       ELSE Append(DecMulCarry(<<>>, k, carry \div 10), carry % 10)
  ELSE LET t == ds[Len(ds)] * k + carry
       IN  Append(DecMulCarry(SubSeq(ds, 1, Len(ds) - 1), k, t \div 10), t % 10)

DecMul(ds, k) == DecStrip(<<0>> \o DecMulCarry(ds, k, 0))

\* a <= b for stripped decimals
DecLeq(a, b) ==
  \/ Len(a) < Len(b)
  \/ /\ Len(a) = Len(b)
     /\ \/ a = b
        \/ \E i \in 1..Len(a) : a[i] < b[i] /\ \A j \in 1..(i - 1) : a[j] = b[j]

\* x \div 10 and x % 10 on u64
U64DivMod10(x) ==
  LET t4 == x[4]
      t3 == (t4 % 10) * LimbBase + x[3]
      t2 == (t3 % 10) * LimbBase + x[2]
      t1 == (t2 % 10) * LimbBase + x[1]
  IN  [quot |-> <<t1 \div 10, t2 \div 10, t3 \div 10, t4 \div 10>>, rem |-> t1 % 10]

RECURSIVE DecOfU64Digits(_)
DecOfU64Digits(x) ==
  IF x = U64Zero THEN <<>>
  ELSE LET qr == U64DivMod10(x) IN Append(DecOfU64Digits(qr.quot), qr.rem)

\* the decimal numeral of a u64
DecOfU64(x) == IF x = U64Zero THEN <<0>> ELSE DecOfU64Digits(x)

\* 2^64 - 1
DecU64Max == <<1, 8, 4, 4, 6, 7, 4, 4, 0, 7, 3, 7, 0, 9, 5, 5, 1, 6, 1, 5>>

\* an unsigned decimal integer as the integer parser reads it: an optional
\* "+" and then one or more digits
IsUnsignedNumeral(cs) ==
  LET ds == IF Len(cs) > 0 /\ Head(cs) = "+" THEN Tail(cs) ELSE cs
  IN  Len(ds) > 0 /\ \A i \in 1..Len(ds) : IsDigit(ds[i])

NumeralDigits(cs) == IF Head(cs) = "+" THEN Tail(cs) ELSE cs

\* the value of an unsigned numeral
NumeralValue(cs) == DecOfChars(NumeralDigits(cs))

UnitChars == {"s", "m", "h", "d"}

\* seconds per unit
UnitFactor(c) ==
  CASE c = "s" -> 1 [] c = "m" -> 60 [] c = "h" -> 3600 [] c = "d" -> 86400

\* "<n>s", "<n>m", "<n>h" or "<n>d"
IsDurationShape(arg) ==
  /\ Len(arg) >= 2
  /\ arg[Len(arg)] \in UnitChars
  /\ IsUnsignedNumeral(StripSuffix(arg))

\* ... with n a value of u64
IsValidDurationArg(arg) ==
  /\ IsDurationShape(arg)
  /\ DecLeq(NumeralValue(StripSuffix(arg)), DecU64Max)

\* ------------------------------------------------------------------------
\* Claims about the parsers
\* ------------------------------------------------------------------------

\* C8: for every valid duration string "<n>s", "<n>m", "<n>h", "<n>d" (n a
\* value of u64) parse_duration succeeds and returns exactly n, n*60, n*3600,
\* n*86400 seconds.
C8_DurationExact ==
  (test_result.fn = "parse_duration" /\ IsValidDurationArg(test_arg))
    => /\ test_result.out.tag = "Ok"
       /\ test_result.out.val.nanos = 0
       /\ DecOfU64(test_result.out.val.secs)
            = DecMul(NumeralValue(StripSuffix(test_arg)),
                     UnitFactor(test_arg[Len(test_arg)]))

\* C9: parse_duration fails for every string that is not one unsigned integer
\* followed by exactly one of the unit letters s, m, h, d: a missing or
\* unrecognized suffix, a compound duration, an empty or non-numeric prefix.
C9_MalformedDurationFails ==
  (test_result.fn = "parse_duration" /\ ~IsDurationShape(test_arg))
    => test_result.out.tag = "Err"

C9_Witness ==
  /\ test_result.fn = "parse_duration"
  /\ test_arg = <<"1", "h", "3", "0", "m">>
  /\ test_result.out.tag = "Err"

\* ------------------------------------------------------------------------
\* Claims about the command
\* ------------------------------------------------------------------------

\* no step can follow
Stopped == pc = "exited" /\ ~ENABLED Next

\* C1: with follow = false the remote fetch is invoked exactly once and the loop
\* returns, whatever the fetch answers; there is no sleep and no second fetch.
C1_NoFollowFetchesOnce ==
  (pc # "clap" /\ ~cmd.follow)
    => /\ fetches <= 1
       /\ sleeps = 0 /\ slept = U64Zero
       /\ pc \notin {"sleeping", "loop_fetch"}
       /\ (response.tag # "None" => Stopped)
       /\ (pc = "exited" /\ outcome.tag = "Ok" => fetches = 1 /\ in_flight = 0)

C1_Witness ==
  /\ ~cmd.follow
  /\ pc = "exited"
  /\ outcome.tag = "Ok"
  /\ fetches = 1
  /\ response.tag = "Ok"
  /\ response.val # <<>>

\* what holds of every state of a following loop, but for how the loop may end
FollowLoopSteps ==
  /\ in_flight \in {0, 1}
  /\ (in_flight = 1 <=> pc = "fetching")
  /\ (pc = "fetching" /\ fetches = 1 => sleeps = 0 /\ slept = U64Zero)
  /\ (pc = "fetching" /\ fetches > 1 => sleeps = 1 /\ slept = cmd.interval_secs)
  /\ (pc = "loop_fetch" => sleeps = 1 /\ slept = cmd.interval_secs)
  /\ (response.tag = "Ok" => pc = "sleeping" \/ outcome.tag = "Panic")

C3_EmptyKeepsCursor ==
  (response.tag = "Ok" /\ response.val = <<>>)
    => /\ new_since = request.since
       /\ printed = <<>>
       /\ outcome.tag \in {"Running", "Ok"}

C3_Witness ==
  /\ response.tag = "Ok"
  /\ response.val = <<>>
  /\ fetches > 1
  /\ new_since = to_rfc3339(LineTime(1))

\* the seconds of an RFC 3339 string
TimeOf(str) == str[2]

\* every entry has its lines, every line its time and text
WellFormed(entries) ==
  \A i \in 1..Len(entries) :
    /\ entries[i].log_lines.some
    /\ \A k \in 1..Len(entries[i].log_lines.val) :
         LET line == entries[i].log_lines.val[k] IN line.time.some /\ line.line.some

LinesOf(e) == e.log_lines.val

\* entries newest first, the lines of an entry oldest first
NewestFirst(entries) ==
  /\ \A i \in 1..Len(entries) : \A k, l \in 1..Len(LinesOf(entries[i])) :
       k < l => TimeOf(LinesOf(entries[i])[k].time.val)
                  <= TimeOf(LinesOf(entries[i])[l].time.val)
  /\ \A i, j \in 1..Len(entries) :
       i < j => \A k \in 1..Len(LinesOf(entries[i])), l \in 1..Len(LinesOf(entries[j])) :
                  TimeOf(LinesOf(entries[j])[l].time.val)
                    <= TimeOf(LinesOf(entries[i])[k].time.val)

RECURSIVE LastToFirst(_)
\* the lines of the last entry, then those of the one before it, ...
LastToFirst(entries) ==
  IF entries = <<>> THEN <<>>
  ELSE LastToFirst(Tail(entries)) \o LinesOf(Head(entries))

\* how often line x occurs in the sequence q of lines
Occurrences(q, x) == Cardinality({i \in 1..Len(q) : q[i] = x})

RECURSIVE AllLines(_)
AllLines(entries) ==
  IF entries = <<>> THEN <<>> ELSE LinesOf(Head(entries)) \o AllLines(Tail(entries))

\* C4: for a non-empty response listed newest entry first, lines oldest first,
\* one fetch prints every line of every entry exactly once, in chronological
\* order (entries from the last to the first, lines as given), and the new
\* cursor is the time of the last line printed, the most recent line of all.
C4_PrintsChronologically ==
  (/\ response.tag = "Ok"
   /\ response.val # <<>>
   /\ WellFormed(response.val)
   /\ NewestFirst(response.val))
    => LET shown == LastToFirst(response.val)
           all == AllLines(response.val)
       IN  /\ outcome.tag \in {"Running", "Ok"}
           /\ Len(printed) = Len(shown)
           /\ \A i \in 1..Len(shown) : printed[i] = shown[i].line.val
           /\ \A i \in 1..Len(all) :
                Occurrences(printed, all[i].line.val) = Occurrences(all, all[i])
           /\ \A i, j \in 1..Len(shown) :
                i < j => TimeOf(shown[i].time.val) <= TimeOf(shown[j].time.val)
           /\ (shown # <<>>
                 => /\ new_since = shown[Len(shown)].time.val
                    /\ \A i \in 1..Len(all) :
                         TimeOf(all[i].time.val) <= TimeOf(new_since))

\* the entries holding (T1, "a") and (T2, "b"): "a" then "b", and the cursor T2
C4_Witness ==
  /\ response.tag = "Ok"
  /\ response.val = <<[log_lines |-> Some(<<LogLine(2)>>)],
                      [log_lines |-> Some(<<LogLine(1)>>)]>>
  /\ printed = <<LineText(1), LineText(2)>>
  /\ new_since = to_rfc3339(LineTime(2))

\* e starts with the parts of d
StartsWith(e, d) == Len(e) >= Len(d) /\ SubSeq(e, 1, Len(d)) = d

\* C5: a failed fetch, the first or a later one, ends the loop with that error:
\* no further fetch, no sleep, no retry, and no line of it is printed.
C5_FetchFailureIsFatal ==
  response.tag = "Err"
    => /\ Stopped
       /\ outcome.tag = "Err"
       /\ StartsWith(outcome.err, response.err)
       /\ printed = <<>>
       /\ in_flight = 0
       /\ new_since = request.since

C5_Witness ==
  /\ response.tag = "Err"
  /\ cmd.follow
  /\ fetches > 1
  /\ pc = "exited"

\* the error ends with the pointer to the documentation
HasFaqPointer(e) ==
  /\ Len(e) >= 2
  /\ e[Len(e) - 1] = "Learn more at"
  /\ e[Len(e)] = DEVELOPER_CLOUD_FAQ

\* C6: every error run returns (client construction, app lookup or absence,
\* channel lookup, fetch) carries the pointer to the troubleshooting
\* documentation.
C6_ErrorsAnnotated ==
  (pc = "exited" /\ outcome.tag = "Err") => HasFaqPointer(outcome.err)

\* the app id the app lookup gave, if it gave one
Resolved(call) == call.tag = "Ok" /\ call.val.some

\* C7: app id, then channel id, then the fetch loop; no app id: "not found",
\* no channel lookup, no fetch; no channel id: "not found", no fetch; a fetch
\* goes to the channel resolved for the resolved app.
C7_ResolveBeforeFetch ==
  /\ Len(calls) <= 3
  /\ (Len(calls) >= 1 => calls[1].fn = "create_cloud_client")
  /\ (Len(calls) >= 2 => calls[1].tag = "Ok" /\ calls[2].fn = "get_app_id")
  /\ (Len(calls) >= 2 /\ ~Resolved(calls[2])
        => /\ Len(calls) = 2
           /\ fetches = 0
           /\ Stopped
           /\ outcome.tag = "Err"
           /\ StartsWith(outcome.err, <<"app with name not found">>))
  /\ (Len(calls) = 3
        => /\ Resolved(calls[2])
           /\ calls[3].fn = "get_channel_id"
           /\ calls[3].arg = calls[2].val.val \o <<SPIN_DEPLOY_CHANNEL_NAME>>)
  /\ (Len(calls) = 3 /\ calls[3].tag = "Err"
        => /\ fetches = 0
           /\ Stopped
           /\ outcome.tag = "Err"
           /\ StartsWith(outcome.err, <<"logs channel for app with name not found">>))
  /\ (fetches > 0
        => /\ Len(calls) = 3
           /\ calls[3].tag = "Ok"
           /\ request.channel_id = calls[3].val
           /\ request.channel_id = ChannelOf(calls[2].val.val, SPIN_DEPLOY_CHANNEL_NAME))

C7_Witness ==
  /\ pc = "fetching"
  /\ Len(calls) = 3
  /\ calls[2].val = Some(<<"app-2">>)
  /\ request.channel_id = ChannelOf(<<"app-2">>, SPIN_DEPLOY_CHANNEL_NAME)

\* an unsigned integer of u64 that is at least 2
IsIntervalOfAtLeastTwo(arg) ==
  /\ IsUnsignedNumeral(arg)
  /\ DecLeq(NumeralValue(arg), DecU64Max)
  /\ DecLeq(<<2>>, NumeralValue(arg))

\* C10: parse_interval succeeds exactly for the strings that parse as an
\* unsigned integer of at least 2 and returns that value; so every sleep of the
\* loop lasts at least 2 seconds.
C10_IntervalFloor ==
  /\ (pc # "clap" /\ argv # <<>>)
       => /\ IsIntervalOfAtLeastTwo(argv[2])
               <=> ~(outcome.tag = "ArgumentParseError" /\ outcome.err[1] = "--interval")
          /\ (pc = "run" => DecOfU64(cmd.interval_secs) = NumeralValue(argv[2]))
  /\ (sleeps >= 1 => DecLeq(<<2>>, DecOfU64(slept)))

C10_Witness ==
  /\ pc = "loop_fetch"
  /\ sleeps = 1
  /\ slept = MinInterval

\* C11: the line limit goes to the first fetch only: the first request carries
\* max_lines = Some(--tail), every later request of a following loop carries
\* max_lines = None, however many turns the loop makes.
C11_LimitOnFirstFetchOnly ==
  /\ (fetches = 1 => request.max_lines = SomeInt(cmd.max_lines))
  /\ (fetches > 1 => request.max_lines = NoneInt)
  /\ (pc = "run" => cmd.max_lines = argv[4])

C11_Witness ==
  /\ pc = "fetching"
  /\ fetches > 1
  /\ cmd.max_lines = 1
  /\ request.max_lines = NoneInt

\* the lines in the order print_lastn_logs comes to them (an entry without its
\* list has none)
VisitOrder(entries) ==
  LastToFirst([i \in 1..Len(entries) |->
                 IF entries[i].log_lines.some THEN entries[i]
                 ELSE [log_lines |-> Some(<<>>)]])

\* C12: a non-empty response with a line lacking its time or text, or an entry
\* lacking its list of lines, fails at once: the run ends there with an error
\* (a panic), nothing after the faulty line is printed, no later fetch is made
\* and the response gives no cursor.
C12_MalformedFailsFast ==
  (/\ response.tag = "Ok"
   /\ response.val # <<>>
   /\ ~WellFormed(response.val))
    => LET order == VisitOrder(response.val)
       IN  /\ Stopped
           /\ outcome.tag = "Panic"
           /\ in_flight = 0
           /\ new_since = request.since
           /\ Len(printed) <= Len(order)
           /\ \A i \in 1..Len(printed) :
                /\ order[i].line.some
                /\ printed[i] = order[i].line.val
                /\ (i < Len(printed) => order[i].time.some)
           /\ (Len(printed) < Len(order)
                 => \/ printed = <<>>
                    \/ ~order[Len(printed)].time.some
                    \/ ~order[Len(printed) + 1].line.some
                    \/ \E i \in 1..Len(response.val) : ~response.val[i].log_lines.some)
           /\ (Len(printed) = Len(order)
                 => \/ order # <<>> /\ ~order[Len(order)].time.some
                    \/ \E i \in 1..Len(response.val) : ~response.val[i].log_lines.some)

\* a following loop, a good line and then one without a time: the first is
\* printed, the text of the second too, and the run ends
C12_Witness ==
  /\ cmd.follow
  /\ fetches > 1
  /\ response.tag = "Ok"
  /\ response.val = <<[log_lines |-> Some(<<LogLine(2), LineWithoutTime>>)]>>
  /\ printed = <<LineText(2), LineText(1)>>
  /\ outcome.tag = "Panic"
  /\ pc = "exited"

RECURSIVE DecToInt(_)
\* the integer of a decimal (small enough to be one)
DecToInt(ds) ==
  IF ds = <<>> THEN 0 ELSE DecToInt(SubSeq(ds, 1, Len(ds) - 1)) * 10 + ds[Len(ds)]

\* one step of the loop keeps the cursor: the first request carries the start
\* time less the lookback, a request after a sleep carries the cursor as the
\* fetch before it left it, a sleep leaves the cursor alone, and a fetch that
\* succeeds leaves the time of the last line it printed, or the cursor it was
\* given when there were no entries
CursorStep ==
  /\ (pc = "first_fetch" /\ pc' = "fetching")
       => /\ TimeOf(request'.since) + DecToInt(DecOfU64(cmd.since.secs)) = StartTime
          /\ new_since' = request'.since
  /\ (pc = "sleeping")
       => new_since' = new_since /\ request' = request
  /\ (pc = "loop_fetch" /\ pc' = "fetching")
       => /\ request'.since = new_since
          /\ new_since' = new_since
  /\ (pc = "fetching" /\ response'.tag = "Ok" /\ outcome'.tag # "Panic")
       => /\ (response'.val = <<>> => new_since' = request.since)
          /\ (printed' # <<>>
                => LET order == VisitOrder(response'.val)
                   IN  new_since' = order[Len(order)].time.val)
  /\ (pc = "fetching" /\ (response'.tag = "Err" \/ outcome'.tag = "Panic"))
       => new_since' = new_since

\* C13: the cursor is threaded through the loop without loss: the first fetch
\* asks since the start time less the lookback, every later fetch since the
\* cursor the fetch before it returned; the cursor is never set back to its
\* first value and a sleep does not change it.
C13_CursorThreaded == [][CursorStep]_vars

\* a later fetch asks since the time of the line the fetch before it printed last
C13_Witness ==
  /\ pc = "fetching"
  /\ fetches > 1
  /\ request.since = to_rfc3339(LineTime(2))
  /\ new_since = request.since
  /\ cmd.since.secs # U64Zero

\* the times of the lines of a response that carry one
TimesOf(res) ==
  IF res.tag # "Ok" THEN {}
  ELSE {to_rfc3339(l.time.val) :
          l \in {ln \in UNION {{e.log_lines.val[j] : j \in 1..Len(e.log_lines.val)} :
                                 e \in {res.val[i] : i \in 1..Len(res.val)}} :
                   ln.time.some}}

\* C14: in every state of the loop the cursor is a real timestamp, the first
\* cursor or the time of a line a fetch returned and printed; after a fetch
\* that succeeds with entries it is never the empty string, also when every
\* entry returned has an empty list of lines.
C14_CursorIsTimestamp ==
  /\ (pc \in {"fetching", "sleeping", "loop_fetch"} => new_since # EmptyString)
  /\ (pc = "fetching" => new_since = request.since)
  /\ (pc = "sleeping" /\ response.tag = "Ok")
       => \/ new_since = request.since
          \/ /\ printed # <<>>
             /\ new_since \in TimesOf(response)

====
